---- MODULE Spec2Model ----
(***************************************************************************)
(* Model of windows-path-bashrc: the batch pipeline that reads the Windows *)
(* PATH from the registry, classifies its directories, converts them with  *)
(* cygpath, renders a bash fragment and installs it into ~/.bashrc.        *)
(*                                                                         *)
(* Two implementations live in the repository: the package                 *)
(* (src/windows_path_bashrc/__init__.py) and the standalone script         *)
(* (src/main.py).  The variable impl says which one a behaviour runs.      *)
(*                                                                         *)
(* A string is a sequence of atoms.  An atom is one character ("\\", ";",  *)
(* ":", "$", a quote, a newline ...) or a run of ordinary characters that  *)
(* no operation of the program splits, escapes or matches in part ("Py",   *)
(* "Microsoft VS Code", "PATH=").                                          *)
(***************************************************************************)
EXTENDS Integers, Sequences, FiniteSets, TLC

VARIABLES
    impl,          \* "package" or "script"
    pc,            \* position in the pipeline
    regSystem,     \* registry value HKLM ... Environment\Path
    regUser,       \* registry value HKCU Environment\Path
    localappdata,  \* "unset" | "present" | "missing": LOCALAPPDATA and its WindowsApps directory
    path_list,     \* result of get_combined_path_list
    idx,           \* loop index of split_path
    output_dict,   \* result of split_path: prepend, append, vscode, ssh
    prepend_dirs_msys,
    append_dirs_msys,
    config_str,    \* rendered configuration
    configFile,    \* ~/.bashrc_winpath
    bashrc,        \* ~/.bashrc
    configFile0,   \* history: the files before the run
    bashrc0,
    bashrcFirst,   \* history: ~/.bashrc before the first run
    err,           \* the exception that ended the run, <<>> when none
    calls,         \* history: every invocation of cygpath.exe
    runs,          \* number of runs started
    qin,           \* input of the quoting routine
    quoted,        \* double_quote(qin)
    parsed         \* the value bash gives the quoted word

vars == <<impl, pc, regSystem, regUser, localappdata, path_list, idx, output_dict,
          prepend_dirs_msys, append_dirs_msys, config_str, configFile, bashrc,
          configFile0, bashrc0, bashrcFirst, err, calls, runs, qin, quoted, parsed>>

----------------------------------------------------------------------------
(* Bounds of the model *)

\* registry PATH segments over both scopes
MaxSegs == 3
\* directories handed to split_path
MaxDirs == 3
\* chunks an initial ~/.bashrc is made of
MaxChunks == 3
\* runs of the installer in a row
MaxRuns == 3
\* length of a string handed to the quoting routine
MaxLen == 3

----------------------------------------------------------------------------
(* Strings *)

Impls == {"package", "script"}

\* every sequence over S of length at most n
SeqsUpTo(S, n) == UNION {[1..k -> S] : k \in 0..n}

Last(s) == s[Len(s)]

\* str.join
RECURSIVE Join(_, _)
Join(list, sep) ==
    IF list = <<>> THEN <<>>
    ELSE IF Len(list) = 1 THEN Head(list)
    ELSE Head(list) \o sep \o Join(Tail(list), sep)

\* str.split(sep) for a one-atom separator: empty pieces are kept
RECURSIVE SplitOn(_, _)
SplitOn(s, sep) ==
    IF \A k \in 1..Len(s) : s[k] # sep THEN <<s>>
    ELSE LET k == CHOOSE j \in 1..Len(s) :
                      s[j] = sep /\ \A m \in 1..(j - 1) : s[m] # sep
         IN  <<SubSeq(s, 1, k - 1)>> \o SplitOn(SubSeq(s, k + 1, Len(s)), sep)

\* str.rstrip(ch)
RECURSIVE RStrip(_, _)
RStrip(s, ch) ==
    IF s # <<>> /\ Last(s) = ch THEN RStrip(SubSeq(s, 1, Len(s) - 1), ch) ELSE s

\* needle in hay
Contains(hay, needle) ==
    \E k \in 0..(Len(hay) - Len(needle)) : SubSeq(hay, k + 1, k + Len(needle)) = needle

\* str.endswith
EndsWith(s, suffix) ==
    Len(s) >= Len(suffix) /\ SubSeq(s, Len(s) - Len(suffix) + 1, Len(s)) = suffix

\* str.splitlines: pieces between line ends, no empty piece after a final line end
SplitLinesKeepLast(s) == SplitOn(s, "\n")

SplitLines(s) ==
    IF s = <<>> THEN <<>>
    ELSE LET pieces == SplitOn(s, "\n")
         IN  IF Last(s) = "\n" THEN SubSeq(pieces, 1, Len(pieces) - 1) ELSE pieces

\* json.encoder.encode_basestring: the escapes of a JSON string, inside quotes.
\* The dollar sign and the backquote are not escaped.
EscapeAtom(a) ==
    CASE a = "\"" -> <<"\\", "\"">>
      [] a = "\\" -> <<"\\", "\\">>
      [] a = "\n" -> <<"\\", "n">>
      [] OTHER    -> <<a>>

RECURSIVE EscapeAll(_)
EscapeAll(s) == IF s = <<>> THEN <<>> ELSE EscapeAtom(Head(s)) \o EscapeAll(Tail(s))

double_quote(s) == <<"\"">> \o EscapeAll(s) \o <<"\"">>

\* shlex.quote: a string of safe characters is returned as it is, any other in
\* single quotes.  The atoms "squote" and "backquote" stand for the characters
\* ' and `.
UnsafeAtoms == {"\"", "$", "\\", " ", "squote", ";", "\n", "{", "}", "backquote"}

RECURSIVE QuoteSingle(_)
QuoteSingle(s) ==
    IF s = <<>> THEN <<>>
    ELSE (IF Head(s) = "squote" THEN <<"squote", "\"", "squote", "\"", "squote">>
          ELSE <<Head(s)>>)
         \o QuoteSingle(Tail(s))

shlex_quote(s) ==
    IF s = <<>> THEN <<"squote", "squote">>
    ELSE IF \A k \in 1..Len(s) : s[k] \notin UnsafeAtoms THEN s
    ELSE <<"squote">> \o QuoteSingle(s) \o <<"squote">>

----------------------------------------------------------------------------
(* What bash makes of a double-quoted word *)

\* characters of a shell variable name
NameAtoms == {"a", "PATH", "HOME"}

\* the value of an expanded variable in the shell that reads the fragment:
\* the variables of the quoting check are unset there
ShellValue(name) == <<>>

\* The inside of a double-quoted word from position k on: a backslash escapes
\* $, `, ", \ and is kept before anything else; $name is expanded; an
\* unescaped quote ends the word early.
RECURSIVE ShellInside(_, _)
ShellInside(w, k) ==
    IF k > Len(w) THEN <<>>
    ELSE IF w[k] = "\\" /\ k < Len(w) /\ w[k + 1] \in {"$", "backquote", "\"", "\\"}
        THEN <<w[k + 1]>> \o ShellInside(w, k + 2)
    ELSE IF w[k] = "$" /\ k < Len(w) /\ w[k + 1] \in NameAtoms
        THEN ShellValue(w[k + 1]) \o ShellInside(w, k + 2)
    ELSE IF w[k] = "\"" THEN <<"<unquoted>">> \o ShellInside(w, k + 1)
    ELSE <<w[k]>> \o ShellInside(w, k + 1)

ShellDoubleQuoted(w) ==
    IF Len(w) >= 2 /\ w[1] = "\"" /\ Last(w) = "\""
    THEN ShellInside(SubSeq(w, 2, Len(w) - 1), 1)
    ELSE <<"<syntax>">>

----------------------------------------------------------------------------
(* The Windows host: directories, files, environment *)

\* the value of LOCALAPPDATA when it is set
LocalAppDataValue == <<"C:", "\\", "Local">>

D_SYS   == <<"C:", "\\", "Sys">>
D_PY    == <<"C:", "\\", "Py">>
D_PIP   == <<"C:", "\\", "Py", "\\", "Scripts">>
D_SSH   == <<"C:", "\\", "OpenSSH">>
D_GIT   == <<"C:", "\\", "Git">>
D_VS1   == <<"C:", "\\", "Microsoft VS Code", "\\", "bin">>
D_VS2   == <<"C:", "\\", "Microsoft VS Code", "\\", "\\", "bin">>
D_WA    == <<"C:", "\\", "Local", "\\", "Microsoft", "\\", "WindowsApps">>
D_GONE  == <<"C:", "\\", "Gone">>
\* left in PATH by a VS Code that was removed: neither spelling exists
D_OLDVS1 == <<"D:", "\\", "Microsoft VS Code", "\\", "bin">>
D_OLDVS2 == <<"D:", "\\", "Microsoft VS Code", "\\", "\\", "bin">>

\* The file-system object a path names: repeated and trailing separators do
\* not matter to Windows.
RECURSIVE Canon(_)
Canon(d) ==
    IF d = <<>> THEN <<>>
    ELSE IF Head(d) = "\\" /\ (Len(d) = 1 \/ d[2] = "\\") THEN Canon(Tail(d))
    ELSE <<Head(d)>> \o Canon(Tail(d))

\* the WindowsApps directory exists unless the host lacks it
WindowsAppsExists(la) == la # "missing"

\* os.path.exists
PathExists(d, la) ==
    \/ Canon(d) \in {D_SYS, D_PY, D_PIP, D_SSH, D_GIT, D_VS1}
    \/ Canon(d) = D_WA /\ WindowsAppsExists(la)

\* os.path.isfile(os.path.join(d, name))
IsFile(d, name, la) ==
    CASE name = "ssh.exe"    -> Canon(d) \in {D_SSH, D_GIT}
      [] name = "python.exe" -> \/ Canon(d) \in {D_PY, D_GIT}
                                \/ Canon(d) = D_WA /\ WindowsAppsExists(la)
      [] name = "pip.exe"    -> Canon(d) \in {D_PIP}
      [] OTHER               -> FALSE

\* os.path.samefile of two existing paths
SameFile(a, b) == Canon(a) = Canon(b)

\* os.path.expandvars: %LOCALAPPDATA% is replaced when the variable is set and
\* left as it is otherwise
RECURSIVE ExpandVars(_, _)
ExpandVars(s, la) ==
    IF s = <<>> THEN <<>>
    ELSE (IF Head(s) = "%LOCALAPPDATA%" /\ la # "unset" THEN LocalAppDataValue ELSE <<Head(s)>>)
         \o ExpandVars(Tail(s), la)

\* pathlib.Path(d).parent on Windows: the path without its last component
\* (pathlib drops repeated and trailing separators first)
RECURSIVE DropLastComponent(_)
DropLastComponent(c) ==
    IF c = <<>> THEN <<>>
    ELSE IF Last(c) = "\\" THEN SubSeq(c, 1, Len(c) - 1)
    ELSE DropLastComponent(SubSeq(c, 1, Len(c) - 1))

PathParent(d) == DropLastComponent(Canon(d))

----------------------------------------------------------------------------
(* Path source reader *)

NoValue == [present |-> FALSE, value |-> <<>>]

\* get_env_path: the registry value, "" when the key or value is missing
get_env_path(reg) == IF reg.present THEN reg.value ELSE <<>>

\* [do_expandvars(p).rstrip("\\") for p in raw.split(";") if p]; the script
\* does not strip
RECURSIVE EntriesOf(_, _, _)
EntriesOf(pieces, im, la) ==
    IF pieces = <<>> THEN <<>>
    ELSE (IF Head(pieces) = <<>> THEN <<>>
          ELSE IF im = "package" THEN <<RStrip(ExpandVars(Head(pieces), la), "\\")>>
          ELSE <<ExpandVars(Head(pieces), la)>>)
         \o EntriesOf(Tail(pieces), im, la)

path_entries(raw, im, la) == EntriesOf(SplitOn(raw, ";"), im, la)

get_combined_path_list_user_first(user, system, im, la) ==
    path_entries(get_env_path(user), im, la) \o path_entries(get_env_path(system), im, la)

get_combined_path_list(user, system, im, la) ==
    path_entries(get_env_path(system), im, la) \o path_entries(get_env_path(user), im, la)

----------------------------------------------------------------------------
(* Directory classifier *)

\* os.path.join(localappdata, "Microsoft\\WindowsApps"); the package's raw
\* string holds two backslashes
windowsapps_path(im) ==
    IF im = "package"
    THEN LocalAppDataValue \o <<"\\", "Microsoft", "\\", "\\", "WindowsApps">>
    ELSE LocalAppDataValue \o <<"\\", "Microsoft", "\\", "WindowsApps">>

\* the substring the VS Code rule looks for; the package's raw string holds
\* two backslashes
vscode_pattern(im) ==
    IF im = "package" THEN <<"Microsoft VS Code", "\\", "\\", "bin">>
    ELSE <<"Microsoft VS Code", "\\", "bin">>

EmptyDict == [prepend |-> <<>>, append |-> <<>>, vscode |-> <<>>, ssh |-> <<>>]

\* The rule of split_path's loop body that disposes of directory d: "raise"
\* when os.path.samefile meets a WindowsApps path that does not exist.
classify_python_first(d, im, la) ==
    IF la # "unset" /\ PathExists(d, la) /\ ~WindowsAppsExists(la) THEN "raise"
    ELSE IF la # "unset" /\ PathExists(d, la) /\ SameFile(windowsapps_path(im), d) THEN "drop"
    ELSE IF IsFile(d, "python.exe", la) THEN "python"
    ELSE IF Contains(d, vscode_pattern(im)) THEN "vscode"
    ELSE IF IsFile(d, "ssh.exe", la) THEN "ssh"
    ELSE IF IsFile(d, "pip.exe", la) THEN "pip"
    ELSE "append"

classify(d, im, la) ==
    IF la # "unset" /\ PathExists(d, la) /\ ~WindowsAppsExists(la) THEN "raise"
    ELSE IF la # "unset" /\ PathExists(d, la) /\ SameFile(windowsapps_path(im), d) THEN "drop"
    ELSE IF Contains(d, vscode_pattern(im)) THEN "vscode"
    ELSE IF IsFile(d, "ssh.exe", la) THEN "ssh"
    ELSE IF IsFile(d, "python.exe", la) THEN "python"
    ELSE IF IsFile(d, "pip.exe", la) THEN "pip"
    ELSE "append"

\* what the matching rule does to output_dict; the script has no ssh slot and
\* puts a directory holding ssh.exe into prepend
place_missing_continue(dict, d, rule, im) ==
    CASE rule = "drop"   -> dict
      [] rule = "vscode" -> [dict EXCEPT !.vscode = <<d>>]
      [] rule = "ssh"    -> IF im = "package" THEN [dict EXCEPT !.ssh = <<d>>]
                            ELSE [dict EXCEPT !.prepend = Append(@, d)]
      [] rule = "python" -> [dict EXCEPT !.prepend = Append(@, d), !.append = Append(@, d)]
      [] rule = "pip"    -> [dict EXCEPT !.prepend = Append(@, d)]
      [] OTHER           -> [dict EXCEPT !.append = Append(@, d)]

place(dict, d, rule, im) ==
    CASE rule = "drop"   -> dict
      [] rule = "vscode" -> [dict EXCEPT !.vscode = <<d>>]
      [] rule = "ssh"    -> IF im = "package" THEN [dict EXCEPT !.ssh = <<d>>]
                            ELSE [dict EXCEPT !.prepend = Append(@, d)]
      [] rule \in {"python", "pip"} -> [dict EXCEPT !.prepend = Append(@, d)]
      [] OTHER           -> [dict EXCEPT !.append = Append(@, d)]

----------------------------------------------------------------------------
(* Path-format converter *)

\* what cygpath.exe -ua prints for one path
ToPosix(p) ==
    LET c == Canon(p)
    IN  [k \in 1..Len(c) |-> IF c[k] = "C:" THEN "/c" ELSE IF c[k] = "D:" THEN "/d"
                         ELSE IF c[k] = "\\" THEN "/" ELSE c[k]]

\* what cygpath.exe -wa prints for one path of the MSYS2 tree
ToWindows(p) ==
    <<"C:", "\\", "msys64">> \o [k \in 1..Len(p) |-> IF p[k] = "/" THEN "\\" ELSE p[k]]

RECURSIVE UtilityLines(_, _)
UtilityLines(args, win_to_msys) ==
    IF args = <<>> THEN <<>>
    ELSE (IF win_to_msys THEN ToPosix(Head(args)) ELSE ToWindows(Head(args)))
         \o <<"\n">> \o UtilityLines(Tail(args), win_to_msys)

\* what the utility writes to its error stream when it fails
Diagnostics == {<<"cygpath: cannot convert">>, <<"cygpath: not enough arguments">>}

\* The runs cygpath.exe can make of an argument list: it converts every
\* path, one per line and in order, and exits 0, or it fails with a
\* diagnostic.  With no path at all either may happen.
UtilityRuns(args, win_to_msys) ==
    {[rc |-> 0, stdout |-> UtilityLines(args, win_to_msys), stderr |-> <<>>]}
    \cup {[rc |-> 1, stdout |-> <<>>, stderr |-> e] : e \in Diagnostics}

\* cygpath() once subprocess.run has returned `run`
cygpath_ignores_status(run) ==
    [raised |-> FALSE, error |-> <<>>, value |-> SplitLines(run.stdout)]

cygpath_keeps_last_piece(run) ==
    IF run.rc # 0
    THEN [raised |-> TRUE, error |-> <<"RuntimeError", "cygpath failed: ">> \o run.stderr,
          value |-> <<>>]
    ELSE [raised |-> FALSE, error |-> <<>>, value |-> SplitLinesKeepLast(run.stdout)]

cygpath(run) ==
    IF run.rc # 0
    THEN [raised |-> TRUE, error |-> <<"RuntimeError", "cygpath failed: ">> \o run.stderr,
          value |-> <<>>]
    ELSE [raised |-> FALSE, error |-> <<>>, value |-> SplitLines(run.stdout)]

\* the record of one invocation of the utility
Invocation(stage, args, win_to_msys, run) ==
    [stage |-> stage, args |-> args, win_to_msys |-> win_to_msys, rc |-> run.rc,
     stderr |-> run.stderr]

----------------------------------------------------------------------------
(* Configuration renderer *)

\* the fixed text of the code() function before and after the quoted path, each
\* one atom
CodeHead == <<"function code() { local VSCODE_PATH=">>
CodeTail == <<" VSCODE_DEV= ELECTRON_RUN_AS_NODE=1 Code.exe cli.js $@ }">>
RsyncLine == <<"export RSYNC_RSH=/usr/bin/ssh">>

PrependLine(prepend_msys) ==
    <<"PATH=">> \o double_quote(Join(prepend_msys, <<":">>) \o <<":", "$", "PATH">>)

AppendLine(append_msys) ==
    <<"PATH=">> \o double_quote(<<"$", "PATH", ":">> \o Join(append_msys, <<":">>))

CodeFunction(vscode_parent_msys) == CodeHead \o double_quote(vscode_parent_msys) \o CodeTail

\* _build_config_string, and the script's inline rendering, which exports
\* RSYNC_RSH whatever was found; parent_msys is cygpath([parent])[0]
build_config_string_always_exports(prepend_msys, append_msys, vscode_dir, ssh_path, parent_msys, im) ==
    PrependLine(prepend_msys) \o <<"\n">> \o AppendLine(append_msys) \o <<"\n">>
    \o (IF vscode_dir # <<>> THEN CodeFunction(parent_msys) \o <<"\n">> ELSE <<>>)
    \o RsyncLine \o <<"\n">>

build_config_string(prepend_msys, append_msys, vscode_dir, ssh_path, parent_msys, im) ==
    IF im = "package"
    THEN Join(<<PrependLine(prepend_msys), AppendLine(append_msys)>>
              \o (IF vscode_dir # <<>> THEN <<CodeFunction(parent_msys)>> ELSE <<>>)
              \o (IF ssh_path # <<>> THEN <<RsyncLine>> ELSE <<>>),
              <<"\n">>) \o <<"\n">>
    ELSE PrependLine(prepend_msys) \o <<"\n">> \o AppendLine(append_msys) \o <<"\n">>
         \o (IF vscode_dir # <<>> THEN CodeFunction(parent_msys) \o <<"\n">> ELSE <<>>)
         \o RsyncLine \o <<"\n">>

\* main(): the directories converted for the prepend line; the package adds
\* the ssh slot's directory at the end
prepend_dirs_of(dict, im) ==
    IF im = "package" THEN dict.prepend \o dict.ssh ELSE dict.prepend

----------------------------------------------------------------------------
(* Idempotent installer *)

\* printenv HOME, stripped
HomePosix == <<"/", "home", "/", "u">>

config_file == <<".bashrc_winpath">>

Absent == [exists |-> FALSE, content |-> <<>>]

File(content) == [exists |-> TRUE, content |-> content]

\* the line that sources the generated file
source_line(im) ==
    IF im = "package"
    THEN <<"source ">> \o double_quote(<<"$", "{", "HOME", "}", "/">> \o config_file)
    ELSE <<"source ", "\"", "$", "{", "HOME", "}", "/", "\"">> \o shlex_quote(config_file)

\* ~/.bashrc after the last step of ensure_bashrc_config
new_bashrc_always_appends(file, line) ==
    LET content == IF file.exists THEN file.content ELSE <<>>
    IN  File(content
             \o (IF content # <<>> /\ ~EndsWith(content, <<"\n">>) THEN <<"\n">> ELSE <<>>)
             \o line \o <<"\n">>)

new_bashrc_always_separates(file, line) ==
    LET content == IF file.exists THEN file.content ELSE <<>>
    IN  IF Contains(content, line) THEN file
        ELSE File(content \o <<"\n">> \o line \o <<"\n">>)

new_bashrc(file, line) ==
    LET bashrc_content == IF file.exists THEN file.content ELSE <<>>
    IN  IF Contains(bashrc_content, line) THEN file
        ELSE File(bashrc_content
                  \o (IF bashrc_content # <<>> /\ ~EndsWith(bashrc_content, <<"\n">>)
                      THEN <<"\n">> ELSE <<>>)
                  \o line \o <<"\n">>)

----------------------------------------------------------------------------
(* The pipeline: main() of the package, the __main__ block of the script *)

Fail(e) ==
    /\ pc' = "failed"
    /\ err' = e

\* get_combined_path_list
ReadPaths ==
    /\ pc = "read"
    /\ path_list' = get_combined_path_list(regUser, regSystem, impl, localappdata)
    /\ idx' = 1
    /\ output_dict' = EmptyDict
    /\ pc' = "split"
    /\ UNCHANGED <<impl, regSystem, regUser, localappdata, prepend_dirs_msys,
                   append_dirs_msys, config_str, configFile, bashrc, configFile0, bashrc0,
                   bashrcFirst, err, calls, runs, qin, quoted, parsed>>

\* one iteration of split_path's loop
SplitStep ==
    /\ pc = "split"
    /\ idx <= Len(path_list)
    /\ LET directory == path_list[idx]
           rule == classify(directory, impl, localappdata)
       IN  IF rule = "raise"
           THEN /\ Fail(<<"FileNotFoundError">>)
                /\ UNCHANGED <<idx, output_dict>>
           ELSE /\ output_dict' = place(output_dict, directory, rule, impl)
                /\ idx' = idx + 1
                /\ UNCHANGED <<pc, err>>
    /\ UNCHANGED <<impl, regSystem, regUser, localappdata, path_list, prepend_dirs_msys,
                   append_dirs_msys, config_str, configFile, bashrc, configFile0, bashrc0,
                   bashrcFirst, calls, runs, qin, quoted, parsed>>

\* split_path returns
SplitDone ==
    /\ pc = "split"
    /\ idx > Len(path_list)
    /\ pc' = "conv_prepend"
    /\ UNCHANGED <<impl, regSystem, regUser, localappdata, path_list, idx, output_dict,
                   prepend_dirs_msys, append_dirs_msys, config_str, configFile, bashrc,
                   configFile0, bashrc0, bashrcFirst, err, calls, runs, qin, quoted, parsed>>

\* prepend_dirs_msys = cygpath(prepend_dirs)
ConvPrepend ==
    /\ pc = "conv_prepend"
    /\ LET args == prepend_dirs_of(output_dict, impl)
       IN  \E run \in UtilityRuns(args, TRUE) :
              LET r == cygpath(run)
              IN  /\ calls' = Append(calls, Invocation("conv_prepend", args, TRUE, run))
                  /\ IF r.raised
                     THEN Fail(r.error) /\ UNCHANGED prepend_dirs_msys
                     ELSE /\ prepend_dirs_msys' = r.value
                          /\ pc' = "conv_append"
                          /\ UNCHANGED err
    /\ UNCHANGED <<impl, regSystem, regUser, localappdata, path_list, idx, output_dict,
                   append_dirs_msys, config_str, configFile, bashrc, configFile0, bashrc0,
                   bashrcFirst, runs, qin, quoted, parsed>>

\* append_dirs_msys = cygpath(append_dirs)
ConvAppend ==
    /\ pc = "conv_append"
    /\ LET args == output_dict.append
       IN  \E run \in UtilityRuns(args, TRUE) :
              LET r == cygpath(run)
              IN  /\ calls' = Append(calls, Invocation("conv_append", args, TRUE, run))
                  /\ IF r.raised
                     THEN Fail(r.error) /\ UNCHANGED append_dirs_msys
                     ELSE /\ append_dirs_msys' = r.value
                          /\ pc' = "render"
                          /\ UNCHANGED err
    /\ UNCHANGED <<impl, regSystem, regUser, localappdata, path_list, idx, output_dict,
                   prepend_dirs_msys, config_str, configFile, bashrc, configFile0, bashrc0,
                   bashrcFirst, runs, qin, quoted, parsed>>

\* _build_config_string: with a vscode directory, its parent is converted first
Render ==
    /\ pc = "render"
    /\ IF output_dict.vscode # <<>>
       THEN LET args == <<PathParent(output_dict.vscode[1])>>
            IN  \E run \in UtilityRuns(args, TRUE) :
                   LET r == cygpath(run)
                   IN  /\ calls' = Append(calls, Invocation("render", args, TRUE, run))
                       /\ IF r.raised
                          THEN Fail(r.error) /\ UNCHANGED config_str
                          ELSE IF r.value = <<>>
                          THEN Fail(<<"IndexError">>) /\ UNCHANGED config_str
                          ELSE /\ config_str' = build_config_string(prepend_dirs_msys,
                                      append_dirs_msys, output_dict.vscode, output_dict.ssh,
                                      r.value[1], impl)
                               /\ pc' = "install_home"
                               /\ UNCHANGED err
       ELSE /\ config_str' = build_config_string(prepend_dirs_msys, append_dirs_msys,
                                  output_dict.vscode, output_dict.ssh, <<>>, impl)
            /\ pc' = "install_home"
            /\ UNCHANGED <<err, calls>>
    /\ UNCHANGED <<impl, regSystem, regUser, localappdata, path_list, idx, output_dict,
                   prepend_dirs_msys, append_dirs_msys, configFile, bashrc, configFile0,
                   bashrc0, bashrcFirst, runs, qin, quoted, parsed>>

\* ensure_bashrc_config: get_home() and cygpath([home_path], win_to_msys=False)[0];
\* the two files are the ones under that directory
InstallHome ==
    /\ pc = "install_home"
    /\ \E home_ok \in BOOLEAN :
          IF ~home_ok
          THEN Fail(<<"CalledProcessError">>) /\ UNCHANGED calls
          ELSE \E run \in UtilityRuns(<<HomePosix>>, FALSE) :
                  LET r == cygpath(run)
                  IN  /\ calls' = Append(calls, Invocation("install", <<HomePosix>>, FALSE, run))
                      /\ IF r.raised THEN Fail(r.error)
                         ELSE IF r.value = <<>> THEN Fail(<<"IndexError">>)
                         ELSE pc' = "install_write" /\ UNCHANGED err
    /\ UNCHANGED <<impl, regSystem, regUser, localappdata, path_list, idx, output_dict,
                   prepend_dirs_msys, append_dirs_msys, config_str, configFile, bashrc,
                   configFile0, bashrc0, bashrcFirst, runs, qin, quoted, parsed>>

\* ensure_bashrc_config: the generated file is overwritten
InstallWrite ==
    /\ pc = "install_write"
    /\ configFile' = File(config_str)
    /\ pc' = "install_bashrc"
    /\ UNCHANGED <<impl, regSystem, regUser, localappdata, path_list, idx, output_dict,
                   prepend_dirs_msys, append_dirs_msys, config_str, bashrc, configFile0,
                   bashrc0, bashrcFirst, err, calls, runs, qin, quoted, parsed>>

\* ensure_bashrc_config: ~/.bashrc is read and the source line appended when
\* it is not there
InstallBashrc ==
    /\ pc = "install_bashrc"
    /\ bashrc' = new_bashrc(bashrc, source_line(impl))
    /\ pc' = "done"
    /\ UNCHANGED <<impl, regSystem, regUser, localappdata, path_list, idx, output_dict,
                   prepend_dirs_msys, append_dirs_msys, config_str, configFile, configFile0,
                   bashrc0, bashrcFirst, err, calls, runs, qin, quoted, parsed>>

----------------------------------------------------------------------------
(* The whole program, run once on a host that has a ~/.bashrc and the file *)
(* an earlier run generated (SpecInstall starts from every other file state) *)

\* a PATH segment of the registry: empty (between two semicolons), with a
\* trailing separator, with a variable reference
RegSegs ==
    {<<>>, D_PY \o <<"\\">>, D_VS1, D_VS2, D_SSH,
     <<"%LOCALAPPDATA%", "\\", "Microsoft", "\\", "WindowsApps">>}

\* the registry values that hold a list of segments
RegValues(segs) ==
    {[present |-> TRUE, value |-> Join(segs, <<";">>)]}
    \cup (IF segs = <<>> THEN {NoValue} ELSE {})

OldConfig == File(<<"PATH=old", "\n">>)

Idle ==
    /\ qin = <<>>
    /\ quoted = <<>>
    /\ parsed = <<>>

Fresh ==
    /\ path_list = <<>>
    /\ idx = 1
    /\ output_dict = EmptyDict
    /\ prepend_dirs_msys = <<>>
    /\ append_dirs_msys = <<>>
    /\ err = <<>>
    /\ calls = <<>>
    /\ runs = 1

Init ==
    /\ impl \in Impls
    /\ pc = "read"
    /\ localappdata \in {"unset", "present", "missing"}
    /\ \E segs \in SeqsUpTo(RegSegs, MaxSegs) : \E k \in 0..Len(segs) :
          /\ regSystem \in RegValues(SubSeq(segs, 1, k))
          /\ regUser \in RegValues(SubSeq(segs, k + 1, Len(segs)))
    /\ Fresh
    /\ config_str = <<>>
    /\ configFile = OldConfig
    /\ bashrc = File(<<"alias ll=ls">>)
    /\ configFile0 = configFile
    /\ bashrc0 = bashrc
    /\ bashrcFirst = bashrc
    /\ Idle

Next ==
    \/ ReadPaths
    \/ SplitStep
    \/ SplitDone
    \/ ConvPrepend
    \/ ConvAppend
    \/ Render
    \/ InstallHome
    \/ InstallWrite
    \/ InstallBashrc

Spec == Init /\ [][Next]_vars

----------------------------------------------------------------------------
(* split_path on its own, over every short list of directories *)

SplitDirs ==
    {D_SYS, D_PY, D_PIP, D_SSH, D_GIT, D_VS1, D_VS2, D_WA, D_GONE, D_OLDVS1, D_OLDVS2}

InitSplit ==
    /\ impl \in Impls
    /\ pc = "split"
    /\ localappdata \in {"unset", "present", "missing"}
    /\ regSystem = NoValue
    /\ regUser = NoValue
    /\ path_list \in SeqsUpTo(SplitDirs, MaxDirs)
    /\ idx = 1
    /\ output_dict = EmptyDict
    /\ prepend_dirs_msys = <<>>
    /\ append_dirs_msys = <<>>
    /\ err = <<>>
    /\ calls = <<>>
    /\ runs = 1
    /\ config_str = <<>>
    /\ configFile = Absent
    /\ bashrc = Absent
    /\ configFile0 = configFile
    /\ bashrc0 = bashrc
    /\ bashrcFirst = bashrc
    /\ Idle

NextSplit ==
    \/ SplitStep
    \/ SplitDone

SpecSplit == InitSplit /\ [][NextSplit]_vars

----------------------------------------------------------------------------
(* ensure_bashrc_config on its own, run again and again *)

\* rendered configurations handed to the installer
ConfigSamples ==
    {build_config_string(<<>>, <<>>, <<>>, <<>>, <<>>, "package"),
     build_config_string(<<ToPosix(D_PY)>>, <<ToPosix(D_SYS)>>, <<>>, <<D_SSH>>, <<>>, "package")}

\* what an initial ~/.bashrc is made of: other lines, line ends, the source
\* line of either implementation, the beginning of one
BashrcChunks(im) ==
    {<<"alias ll=ls">>, <<"\n">>, source_line(im), <<"source ">>}

RECURSIVE Flatten(_)
Flatten(chunks) == IF chunks = <<>> THEN <<>> ELSE Head(chunks) \o Flatten(Tail(chunks))

InitInstall ==
    /\ impl \in Impls
    /\ pc = "install_home"
    /\ localappdata = "unset"
    /\ regSystem = NoValue
    /\ regUser = NoValue
    /\ Fresh
    /\ config_str \in ConfigSamples
    /\ configFile \in {Absent, OldConfig}
    /\ \/ bashrc = Absent
       \/ \E chunks \in SeqsUpTo(BashrcChunks(impl), MaxChunks) : bashrc = File(Flatten(chunks))
    /\ configFile0 = configFile
    /\ bashrc0 = bashrc
    /\ bashrcFirst = bashrc
    /\ Idle

\* the program is started again, with whatever configuration it renders then
Rerun ==
    /\ pc \in {"done", "failed"}
    /\ runs < MaxRuns
    /\ runs' = runs + 1
    /\ config_str' \in ConfigSamples
    /\ configFile0' = configFile
    /\ bashrc0' = bashrc
    /\ err' = <<>>
    /\ calls' = <<>>
    /\ pc' = "install_home"
    /\ UNCHANGED <<impl, regSystem, regUser, localappdata, path_list, idx, output_dict,
                   prepend_dirs_msys, append_dirs_msys, configFile, bashrc, bashrcFirst,
                   qin, quoted, parsed>>

NextInstall ==
    \/ InstallHome
    \/ InstallWrite
    \/ InstallBashrc
    \/ Rerun

SpecInstall == InitInstall /\ [][NextInstall]_vars

----------------------------------------------------------------------------
(* The quoting routine on its own, and bash reading what it wrote *)

QuoteAlphabet == {"\"", "$", "\\", "a"}

InitQuote ==
    /\ impl \in Impls
    /\ pc = "quote"
    /\ localappdata = "unset"
    /\ regSystem = NoValue
    /\ regUser = NoValue
    /\ Fresh
    /\ config_str = <<>>
    /\ configFile = Absent
    /\ bashrc = Absent
    /\ configFile0 = configFile
    /\ bashrc0 = bashrc
    /\ bashrcFirst = bashrc
    /\ qin \in SeqsUpTo(QuoteAlphabet, MaxLen)
    /\ quoted = <<>>
    /\ parsed = <<>>

\* double_quote(value), as the renderer calls it
Quote ==
    /\ pc = "quote"
    /\ quoted' = double_quote(qin)
    /\ pc' = "shell"
    /\ UNCHANGED <<impl, regSystem, regUser, localappdata, path_list, idx, output_dict,
                   prepend_dirs_msys, append_dirs_msys, config_str, configFile, bashrc,
                   configFile0, bashrc0, bashrcFirst, err, calls, runs, qin, parsed>>

\* bash reads the quoted word
ShellRead ==
    /\ pc = "shell"
    /\ parsed' = ShellDoubleQuoted(quoted)
    /\ pc' = "sourced"
    /\ UNCHANGED <<impl, regSystem, regUser, localappdata, path_list, idx, output_dict,
                   prepend_dirs_msys, append_dirs_msys, config_str, configFile, bashrc,
                   configFile0, bashrc0, bashrcFirst, err, calls, runs, qin, quoted>>

NextQuote ==
    \/ Quote
    \/ ShellRead

SpecQuote == InitQuote /\ [][NextQuote]_vars

----------------------------------------------------------------------------
(* Notions the properties are stated in *)

Max(a, b) == IF a >= b THEN a ELSE b

Range(list) == {list[k] : k \in 1..Len(list)}

IsPrefix(a, b) == Len(a) <= Len(b) /\ SubSeq(b, 1, Len(a)) = a

\* what a read of the file gives, "" for a file that does not exist
Content(file) == IF file.exists THEN file.content ELSE <<>>

\* how many times needle occurs in hay
Occurrences(hay, needle) ==
    Cardinality({k \in 0..(Len(hay) - Len(needle)) : SubSeq(hay, k + 1, k + Len(needle)) = needle})

\* split_path has returned
SplitReturned == pc = "conv_prepend" /\ idx > Len(path_list)

\* the rule that disposed of the k-th input directory
RuleAt(k) == classify(path_list[k], impl, localappdata)

NumRule(rule) == Cardinality({k \in 1..Len(path_list) : RuleAt(k) = rule})

\* the rules whose directory goes into a single-valued slot
SlotRules == IF impl = "package" THEN {"vscode", "ssh"} ELSE {"vscode"}

\* the k-th directory went into a slot that a later directory took over
Overwritten(k) ==
    /\ RuleAt(k) \in SlotRules
    /\ \E m \in (k + 1)..Len(path_list) : RuleAt(m) = RuleAt(k)

NumHeld ==
    Len(output_dict.prepend) + Len(output_dict.append)
    + Len(output_dict.vscode) + Len(output_dict.ssh)

\* the buckets that hold directory d
BucketsHolding(d) ==
    {b \in {"prepend", "append", "vscode", "ssh"} : d \in Range(output_dict[b])}

----------------------------------------------------------------------------
(* C1: repeated runs of the installer *)

----------------------------------------------------------------------------
(* C2: the buckets of split_path *)

\* C2 as stated: when split_path returns, the buckets hold as many
\* directories as the input has, less the dropped ones, and every directory
\* that was not dropped is in exactly one bucket.
C2_BucketsHoldEveryDirectory ==
    SplitReturned =>
        /\ NumHeld = Len(path_list) - NumRule("drop")
        /\ \A k \in 1..Len(path_list) :
              RuleAt(k) # "drop" => Cardinality(BucketsHolding(path_list[k])) = 1

\* C2 amended: a single-valued slot keeps only the last directory that matched
\* it, so the buckets hold the input less the dropped directories and less the
\* slot matches a later match took over; every other directory that was not
\* dropped is in exactly one bucket.
C2_BucketsHoldAllButOverwritten ==
    SplitReturned =>
        /\ NumHeld = Len(path_list) - NumRule("drop")
                       - Cardinality({k \in 1..Len(path_list) : Overwritten(k)})
        /\ \A k \in 1..Len(path_list) :
              (RuleAt(k) # "drop" /\ ~Overwritten(k))
                 => Cardinality(BucketsHolding(path_list[k])) = 1
        /\ \A k \in 1..Len(path_list) :
              (Overwritten(k) /\ \A m \in 1..Len(path_list) :
                                    path_list[m] = path_list[k] => Overwritten(m))
                 => BucketsHolding(path_list[k]) = {}

\* split_path returned after it dropped the WindowsApps directory and met two
\* VS Code directories
C2_Witness ==
    /\ SplitReturned
    /\ NumRule("drop") >= 1
    /\ NumRule("vscode") >= 2
    /\ \E k \in 1..Len(path_list) : Overwritten(k) /\ path_list[k] \notin Range(output_dict.vscode)

----------------------------------------------------------------------------
(* C3: the converter on an empty list *)

\* C3 as stated: cygpath.exe is never invoked with an empty list of paths.
C3_NoInvocationOnEmptyList ==
    \A k \in 1..Len(calls) : calls[k].args # <<>>

----------------------------------------------------------------------------
(* C4: quoting *)

\* C4 as stated: bash reads the word double_quote wrote as the string that
\* was quoted.
C4_QuotedWordIsLiteral ==
    pc = "sourced" => parsed = qin

----------------------------------------------------------------------------
(* C5: a failing conversion *)

RenderStages == {"conv_prepend", "conv_append", "render"}

\* C5: an invocation of cygpath.exe that exits non-zero is the last thing the
\* run does: the run has failed with the utility's diagnostic, nothing was
\* rendered or converted after it, and both files are as they were before the
\* run.
C5_FailedConversionIsFatal ==
    \A k \in 1..Len(calls) :
        calls[k].rc # 0 =>
            /\ k = Len(calls)
            /\ pc = "failed"
            /\ err = <<"RuntimeError", "cygpath failed: ">> \o calls[k].stderr
            /\ configFile = configFile0
            /\ bashrc = bashrc0
            /\ calls[k].stage \in RenderStages => config_str = <<>>
            /\ calls[k].stage = "conv_prepend" => prepend_dirs_msys = <<>> /\ append_dirs_msys = <<>>
            /\ calls[k].stage = "conv_append" => append_dirs_msys = <<>>

\* the last conversion of a run, that of the home directory, failed after
\* three conversions succeeded
C5_Witness ==
    /\ pc = "failed"
    /\ Len(calls) = 4
    /\ calls[4].rc # 0
    /\ calls[4].stage = "install"
    /\ config_str # <<>>

----------------------------------------------------------------------------
(* C6: the parts of the rendered configuration *)

\* the configuration has been rendered
Rendered ==
    \/ pc \in {"install_home", "install_write", "install_bashrc", "done"}
    \/ pc = "failed" /\ config_str # <<>>

\* the two PATH lines and, with a vscode directory, the code() function
RequiredParts ==
    PrependLine(prepend_dirs_msys) \o <<"\n">> \o AppendLine(append_dirs_msys) \o <<"\n">>
    \o (IF output_dict.vscode # <<>>
        THEN CodeFunction(ToPosix(PathParent(output_dict.vscode[1]))) \o <<"\n">>
        ELSE <<>>)

----------------------------------------------------------------------------
(* C7: the converter's result *)

\* the conversions of the paths of a list, in order
Converted(args, win_to_msys) ==
    [k \in 1..Len(args) |-> IF win_to_msys THEN ToPosix(args[k]) ELSE ToWindows(args[k])]

\* C7: after a conversion of the prepend or of the append directories that
\* exited with status zero, the result holds one path for each input path,
\* the k-th the conversion of the k-th.
C7_OneOutputPerInput ==
    \A k \in 1..Len(calls) :
        calls[k].rc = 0 =>
            /\ calls[k].stage = "conv_prepend" =>
                  /\ Len(prepend_dirs_msys) = Len(calls[k].args)
                  /\ prepend_dirs_msys = Converted(calls[k].args, calls[k].win_to_msys)
            /\ calls[k].stage = "conv_append" =>
                  /\ Len(append_dirs_msys) = Len(calls[k].args)
                  /\ append_dirs_msys = Converted(calls[k].args, calls[k].win_to_msys)

\* a run converted two prepend directories and an append directory
C7_Witness ==
    /\ pc = "done"
    /\ Len(calls) >= 3
    /\ Len(calls[1].args) = 2
    /\ Len(prepend_dirs_msys) = 2
    /\ Len(append_dirs_msys) = 1

----------------------------------------------------------------------------
(* C8: the order of split_path's rules *)

\* the first rule of the stated order that directory d matches
FirstRule(d) ==
    IF localappdata # "unset" /\ PathExists(d, localappdata)
       /\ SameFile(windowsapps_path(impl), d) THEN "drop"
    ELSE IF Contains(d, vscode_pattern(impl)) THEN "vscode"
    ELSE IF IsFile(d, "ssh.exe", localappdata) THEN "ssh"
    ELSE IF IsFile(d, "python.exe", localappdata) \/ IsFile(d, "pip.exe", localappdata)
         THEN "prepend"
    ELSE "append"

\* an iteration of split_path's loop that disposed of a directory
Disposes == pc = "split" /\ idx' = idx + 1

----------------------------------------------------------------------------
(* C9: order *)

\* the directories of the input that a bucket holds, in the input's order
InputOrderOf(bucket) ==
    LET Held(d) == d \in Range(bucket) IN SelectSeq(path_list, Held)

\* the paths of the PATH line rendered from a list of directories
LinePaths(dirs) == Join([k \in 1..Len(dirs) |-> ToPosix(dirs[k])], <<":">>)

\* C9: the combined list is the system entries followed by the user entries;
\* prepend and append hold their directories in the order of that list, and
\* so do the two PATH lines (the package's prepend line ends with the ssh
\* slot's directory).
C9_OrderPreserved ==
    /\ pc # "read" =>
          path_list = path_entries(get_env_path(regSystem), impl, localappdata)
                      \o path_entries(get_env_path(regUser), impl, localappdata)
    /\ (pc \notin {"read", "split", "failed"} \/ (pc = "failed" /\ calls # <<>>)) =>
          /\ output_dict.prepend = InputOrderOf(output_dict.prepend)
          /\ output_dict.append = InputOrderOf(output_dict.append)
    /\ Rendered =>
          IsPrefix(<<"PATH=">>
                   \o double_quote(LinePaths(InputOrderOf(output_dict.prepend)
                                             \o (IF impl = "package" THEN output_dict.ssh
                                                 ELSE <<>>))
                                   \o <<":", "$", "PATH">>)
                   \o <<"\n", "PATH=">>
                   \o double_quote(<<"$", "PATH", ":">>
                                   \o LinePaths(InputOrderOf(output_dict.append)))
                   \o <<"\n">>,
                   config_str)

\* a run whose system and user values both hold entries rendered two
\* different directories of the same bucket, one from each value
C9_Witness ==
    /\ pc = "done"
    /\ get_env_path(regSystem) # <<>>
    /\ get_env_path(regUser) # <<>>
    /\ \E b \in {"prepend", "append"} :
          /\ Len(output_dict[b]) = 2
          /\ output_dict[b][1] # output_dict[b][2]
          /\ output_dict[b][1] \in Range(path_entries(get_env_path(regSystem), impl, localappdata))
          /\ output_dict[b][2] \in Range(path_entries(get_env_path(regUser), impl, localappdata))
          /\ output_dict[b][2] \notin Range(path_entries(get_env_path(regSystem), impl, localappdata))

----------------------------------------------------------------------------
(* C10: what the installer does to ~/.bashrc *)

\* C10: no step removes or rewrites what ~/.bashrc holds; the last step of
\* ensure_bashrc_config leaves the file as it is when the source line occurs
\* in it, and otherwise appends a line end (when the content is not empty and
\* does not end in one), the source line and a line end; a file that does not
\* exist counts as empty.
C10_BashrcOnlyAppended ==
    [][/\ IsPrefix(Content(bashrc), Content(bashrc'))
       /\ (pc = "install_bashrc" /\ pc' = "done") =>
             LET old == Content(bashrc)
                 line == source_line(impl)
             IN  IF Contains(old, line)
                 THEN bashrc' = bashrc
                 ELSE /\ bashrc'.exists
                      /\ bashrc'.content =
                            old \o (IF old # <<>> /\ Last(old) # "\n" THEN <<"\n">> ELSE <<>>)
                                \o line \o <<"\n">>
       /\ ~(pc = "install_bashrc" /\ pc' = "done") => bashrc' = bashrc
    ]_vars

\* a run appended the source line to a ~/.bashrc that did not end in a line
\* end, and another to one that did
C10_Witness ==
    /\ pc = "done"
    /\ runs = 1
    /\ Content(bashrc0) # <<>>
    /\ Last(Content(bashrc0)) # "\n"
    /\ ~Contains(Content(bashrc0), source_line(impl))
    /\ Content(bashrc) = Content(bashrc0) \o <<"\n">> \o source_line(impl) \o <<"\n">>

====
